---- MODULE Spec2Model ----
(***************************************************************************)
(* DiskBroom (src/src/disk_broom.py): the single-pass file analysis        *)
(* analyze_files, with the helpers it calls (validate_directory_path,      *)
(* get_file_attributes, compute_file_hash) and the five-way unpacking of   *)
(* its result by its callers.                                              *)
(*                                                                         *)
(* File names and paths are sequences of one-character strings, so that    *)
(* str.lower, os.path.splitext, str.startswith and str.endswith are        *)
(* computed character by character as Python computes them.                *)
(***************************************************************************)
EXTENDS Integers, Sequences, FiniteSets, TLC

----------------------------------------------------------------------------
(* Strings *)

\* str.lower() on one character (ASCII letters; every other character is kept).
UpperToLower ==
  [c \in {"A","B","C","D","E","F","G","H","I","J","K","L","M",
           "N","O","P","Q","R","S","T","U","V","W","X","Y","Z"} |->
     CASE c = "A" -> "a" [] c = "B" -> "b" [] c = "C" -> "c" [] c = "D" -> "d"
       [] c = "E" -> "e" [] c = "F" -> "f" [] c = "G" -> "g" [] c = "H" -> "h"
       [] c = "I" -> "i" [] c = "J" -> "j" [] c = "K" -> "k" [] c = "L" -> "l"
       [] c = "M" -> "m" [] c = "N" -> "n" [] c = "O" -> "o" [] c = "P" -> "p"
       [] c = "Q" -> "q" [] c = "R" -> "r" [] c = "S" -> "s" [] c = "T" -> "t"
       [] c = "U" -> "u" [] c = "V" -> "v" [] c = "W" -> "w" [] c = "X" -> "x"
       [] c = "Y" -> "y" [] c = "Z" -> "z"]

\* str.lower()
Lower(s) ==
  [i \in 1..Len(s) |-> IF s[i] \in DOMAIN UpperToLower THEN UpperToLower[s[i]] ELSE s[i]]

\* str.startswith(pfx)
StartsWith(s, pfx) ==
  /\ Len(pfx) <= Len(s)
  /\ SubSeq(s, 1, Len(pfx)) = pfx

\* str.endswith(sfx)
EndsWith(s, sfx) ==
  /\ Len(sfx) <= Len(s)
  /\ SubSeq(s, Len(s) - Len(sfx) + 1, Len(s)) = sfx

\* Index of the last "." of s, 0 when there is none (str.rfind, 1-based).
LastDot(s) ==
  LET dots == {i \in 1..Len(s) : s[i] = "."}
  IN  IF dots = {} THEN 0 ELSE CHOOSE i \in dots : \A j \in dots : j <= i

\* os.path.splitext(filename)[1] for a name without a separator: the text from
\* the last dot on, unless every character before that dot is a dot too
\* (leading dots do not start an extension).
SplitExt(s) ==
  LET d == LastDot(s)
  IN  IF d = 0 \/ (\A i \in 1..(d - 1) : s[i] = ".")
      THEN <<>>
      ELSE SubSeq(s, d, Len(s))

\* os.path.join(dirpath, filename)
JoinPath(dirpath, filename) == dirpath \o <<"/">> \o filename

----------------------------------------------------------------------------
(* The file system the scan runs on *)

\* Python's None, the value both helpers return on failure.
None == [none |-> TRUE]

\* The directories of the tree, in the order os.walk reaches them: the root,
\* then its subdirectory.
DirPaths == << <<"r">>, <<"r", "/", "d">> >>

\* The wall clock, time.time(), in seconds. One scan, and two scans run back
\* to back, take far less than any age threshold, so the clock is one value.
Now == 17 * 100000000

\* A file: the directory holding it, its name, what os.stat reports (size,
\* atime, mtime), whether os.stat and open/read succeed, and its content.
\* The content is named by (head, tail): head identifies the first
\* min(size, 1 MiB) bytes, tail the bytes after them (0: there are none).
File(d, n, sz, at, mt, hd, tl, sok, rok) ==
  [dir |-> d, name |-> n, size |-> sz, atime |-> at, mtime |-> mt,
   head |-> hd, tail |-> tl, stat_ok |-> sok, read_ok |-> rok]

PathOf(f) == JoinPath(DirPaths[f.dir], f.name)

\* The file at a path (paths are unique in a tree).
FileAt(fsys, path) == fsys[CHOOSE i \in 1..Len(fsys) : PathOf(fsys[i]) = path]

\* The names os.walk lists for directory d, in enumeration order.
FilenamesIn(fsys, d) ==
  LET here(f) == f.dir = d
      fs_d == SelectSeq(fsys, here)
  IN  [i \in 1..Len(fs_d) |-> fs_d[i].name]

----------------------------------------------------------------------------
(* compute_file_hash *)

\* f.read(1024 * 1024)
SampleBytes == 1024 * 1024

\* Mutant of ReadPrefix: the digest of a sample is kept apart from the
\* digests of whole files.
ReadPrefixMarked(f, n) == <<IF f.size < n THEN f.size ELSE n, f.head, -1>>

\* The bytes a read of the file's first n bytes returns, as (length, head, tail).
ReadPrefix(f, n) == <<IF f.size < n THEN f.size ELSE n, f.head, 0>>

\* The bytes the block loop reads: the whole file.
ReadAll(f) == <<f.size, f.head, f.tail>>

\* hashlib.sha256(...).hexdigest(): a non-empty string that is a function of
\* the bytes hashed and of nothing else (collisions are not modelled).
Sha256(bytes) == [sha256 |-> bytes]

\* Mutant of ComputeFileHash: the sample argument is ignored and every file
\* is hashed in full.
ComputeFileHashNoSample(fsys, path, sample) ==
  LET f == FileAt(fsys, path)
  IN  IF ~f.read_ok THEN None ELSE Sha256(ReadAll(f))

\* compute_file_hash(path, sample=sample): the digest, or None when the open
\* or a read raises.
ComputeFileHash(fsys, path, sample) ==
  LET f == FileAt(fsys, path)
  IN  IF ~f.read_ok
      THEN None
      ELSE IF sample THEN Sha256(ReadPrefix(f, SampleBytes)) ELSE Sha256(ReadAll(f))

\* What a successful read does to the file: with access-time updates on
\* (touch), the kernel sets st_atime to the time of the read.
AfterRead(fsys, path, touch) ==
  [i \in 1..Len(fsys) |->
     IF PathOf(fsys[i]) = path /\ fsys[i].read_ok /\ touch
     THEN [fsys[i] EXCEPT !.atime = Now]
     ELSE fsys[i]]

----------------------------------------------------------------------------
(* get_file_attributes *)

\* Mutant of IsOversized: a size equal to the threshold counts.
IsOversizedOrEqual(size, oversized_threshold) == size >= oversized_threshold

IsOversized(size, oversized_threshold) == size > oversized_threshold

\* Mutant of IsOld: one old timestamp is enough.
IsOldEither(last_access, last_mod, months) ==
  LET threshold == Now - (months * 30 * 24 * 3600)
  IN  last_access < threshold \/ last_mod < threshold

IsOld(last_access, last_mod, months) ==
  LET threshold == Now - (months * 30 * 24 * 3600)
  IN  last_access < threshold /\ last_mod < threshold

\* Mutant of IsStaleDownload: the threshold is taken in minutes.
IsStaleDownloadMinutes(file_path, last_mod, download_stale_secs) ==
  IF \/ EndsWith(file_path, <<".","c","r","d","o","w","n","l","o","a","d">>)
     \/ EndsWith(file_path, <<".","p","a","r","t">>)
  THEN (Now - last_mod) > download_stale_secs * 60
  ELSE FALSE

IsStaleDownload(file_path, last_mod, download_stale_secs) ==
  IF \/ EndsWith(file_path, <<".","c","r","d","o","w","n","l","o","a","d">>)
     \/ EndsWith(file_path, <<".","p","a","r","t">>)
  THEN (Now - last_mod) > download_stale_secs
  ELSE FALSE

\* get_file_attributes(file_path, months, oversized_threshold,
\* download_stale_secs): the attribute dict, or None when os.stat raises.
GetFileAttributes(fsys, file_path, months, oversized_threshold, download_stale_secs) ==
  LET file_stat == FileAt(fsys, file_path)
  IN  IF ~file_stat.stat_ok
      THEN None
      ELSE [size |-> file_stat.size,
            is_oversized |-> IsOversized(file_stat.size, oversized_threshold),
            is_old |-> IsOld(file_stat.atime, file_stat.mtime, months),
            is_stale_download |->
              IsStaleDownload(file_path, file_stat.mtime, download_stale_secs),
            last_access |-> file_stat.atime,
            last_mod |-> file_stat.mtime]

----------------------------------------------------------------------------
(* analyze_files: the body of the loop over the files of a directory *)

\* junk_file_patterns
JunkExt == { <<".","o","l","d">>, <<".","p","a","r","t">>,
             <<".","c","r","d","o","w","n","l","o","a","d">>,
             <<".","t","r","a","s","h">> }
JunkPrefix == { <<"u","n","c","o","n","f","i","r","m","e","d">>,
                <<"t","r","a","s","h">>, <<"c","o","r","e">> }
JunkSuffix == { <<".","c","r","d","o","w","n","l","o","a","d">>,
                <<".","p","a","r","t">>, <<"t","r","a","s","h">> }
JunkExact == { <<".","t","r","a","s","h">>,
               <<".","t","r","a","s","h","-","1","0","0","0">> }

\* Mutant of MatchesJunkPattern: the name and the extension are not
\* lower-cased before the tests.
MatchesJunkPatternCased(filename) ==
  \/ SplitExt(filename) \in JunkExt
  \/ \E pfx \in JunkPrefix : StartsWith(filename, pfx)
  \/ \E sfx \in JunkSuffix : EndsWith(filename, sfx)
  \/ filename \in JunkExact

\* The naming tests of the elif: on the lower-cased name and extension.
MatchesJunkPattern(filename) ==
  LET name_lower == Lower(filename)
      ext == Lower(SplitExt(filename))
  IN  \/ ext \in JunkExt
      \/ \E pfx \in JunkPrefix : StartsWith(name_lower, pfx)
      \/ \E sfx \in JunkSuffix : EndsWith(name_lower, sfx)
      \/ name_lower \in JunkExact

\* Mutant of CheckJunk: the naming patterns are tried before the size.
CheckJunkPatternFirst(junk_files, full_path, filename, attributes) ==
  IF MatchesJunkPattern(filename) \/ attributes.is_stale_download
  THEN Append(junk_files,
              <<full_path, IF ~attributes.is_stale_download
                           THEN "Temporary File"
                           ELSE "Stale Incomplete Download">>)
  ELSE IF attributes.size = 0
       THEN Append(junk_files, <<full_path, "Empty File">>)
       ELSE junk_files

\* "Check for junk files": junk_files after the if/elif.
CheckJunk(junk_files, full_path, filename, attributes) ==
  IF attributes.size = 0
  THEN Append(junk_files, <<full_path, "Empty File">>)
  ELSE IF MatchesJunkPattern(filename) \/ attributes.is_stale_download
       THEN Append(junk_files,
                   <<full_path, IF ~attributes.is_stale_download
                                THEN "Temporary File"
                                ELSE "Stale Incomplete Download">>)
       ELSE junk_files

\* Mutant of HashAppend: the path is put at the front of its list.
HashAppendFront(file_hashes, file_hash, full_path) ==
  IF \E i \in 1..Len(file_hashes) : file_hashes[i].hash = file_hash
  THEN [i \in 1..Len(file_hashes) |->
          IF file_hashes[i].hash = file_hash
          THEN [file_hashes[i] EXCEPT !.paths = <<full_path>> \o @]
          ELSE file_hashes[i]]
  ELSE Append(file_hashes, [hash |-> file_hash, paths |-> <<full_path>>])

\* file_hashes[file_hash].append(full_path) on the defaultdict(list); the
\* dict keeps its keys in insertion order.
HashAppend(file_hashes, file_hash, full_path) ==
  IF \E i \in 1..Len(file_hashes) : file_hashes[i].hash = file_hash
  THEN [i \in 1..Len(file_hashes) |->
          IF file_hashes[i].hash = file_hash
          THEN [file_hashes[i] EXCEPT !.paths = Append(@, full_path)]
          ELSE file_hashes[i]]
  ELSE Append(file_hashes, [hash |-> file_hash, paths |-> <<full_path>>])

\* Mutant of SampleOver: a file of 10 MiB is sampled.
SampleOverLow == 10 * 1024 * 1024 - 1

\* sample=attributes['size'] > 10*1024*1024
SampleOver == 10 * 1024 * 1024

\* Mutant of CheckDuplicates: the size is compared with > instead of >=.
CheckDuplicatesAbove(st, fsys, full_path, attributes, min_duplicate_size) ==
  IF attributes.size > min_duplicate_size
  THEN LET file_hash == ComputeFileHash(fsys, full_path, attributes.size > SampleOver)
       IN  [st EXCEPT
              !.hash_calls = Append(@, full_path),
              !.file_hashes = IF file_hash /= None
                              THEN HashAppend(@, file_hash, full_path)
                              ELSE @]
  ELSE st

\* Mutant of CheckDuplicates: the "if file_hash:" guard is missing, so a
\* failed hash is filed under the key None.
CheckDuplicatesUnguarded(st, fsys, full_path, attributes, min_duplicate_size) ==
  IF attributes.size >= min_duplicate_size
  THEN [st EXCEPT
          !.hash_calls = Append(@, full_path),
          !.file_hashes =
             HashAppend(@, ComputeFileHash(fsys, full_path,
                                           attributes.size > SampleOver),
                        full_path)]
  ELSE st

\* "Check for duplicates": the locals after the if, with the record of the
\* call made to compute_file_hash.
CheckDuplicates(st, fsys, full_path, attributes, min_duplicate_size) ==
  IF attributes.size >= min_duplicate_size
  THEN LET file_hash == ComputeFileHash(fsys, full_path, attributes.size > SampleOver)
       IN  [st EXCEPT
              !.hash_calls = Append(@, full_path),
              !.file_hashes = IF file_hash /= None
                              THEN HashAppend(@, file_hash, full_path)
                              ELSE @]
  ELSE st

\* Mutant of AttributesFailed: the file is skipped and nothing is recorded.
AttributesFailedSilent(st, full_path) == st

\* attributes is None: record the error and continue with the next file.
AttributesFailed(st, full_path) ==
  [st EXCEPT !.scan_errors = Append(@, <<"Error accessing ", full_path>>)]

\* Mutant of Classify: a file filed as junk is filed nowhere else.
ClassifyJunkOnly(st, full_path, filename, attributes) ==
  LET junk == CheckJunk(st.junk_files, full_path, filename, attributes)
      found == junk /= st.junk_files
  IN  [st EXCEPT
         !.oversized_files = IF attributes.is_oversized /\ ~found
                             THEN Append(@, <<full_path, attributes.size>>)
                             ELSE @,
         !.old_files = IF attributes.is_old /\ ~found
                       THEN Append(@, <<full_path, attributes.last_access,
                                        attributes.last_mod>>)
                       ELSE @,
         !.junk_files = junk]

\* The three classifications of a file whose attributes were read.
Classify(st, full_path, filename, attributes) ==
  [st EXCEPT
     !.oversized_files = IF attributes.is_oversized
                         THEN Append(@, <<full_path, attributes.size>>)
                         ELSE @,
     !.old_files = IF attributes.is_old
                   THEN Append(@, <<full_path, attributes.last_access,
                                    attributes.last_mod>>)
                   ELSE @,
     !.junk_files = CheckJunk(@, full_path, filename, attributes)]

\* One iteration of "for filename in filenames". st holds the locals
\* (oversized_files, old_files, junk_files, file_hashes, scan_errors) and the
\* calls made so far (stat_calls, hash_calls).
LoopBody(st, fsys, dirpath, filename, cfg) ==
  LET full_path == JoinPath(dirpath, filename)
      attributes == GetFileAttributes(fsys, full_path, cfg.months,
                                      cfg.oversized_threshold,
                                      cfg.download_stale_secs)
      st1 == [st EXCEPT !.stat_calls = Append(@, full_path)]
  IN  IF attributes = None
      THEN AttributesFailed(st1, full_path)
      ELSE CheckDuplicates(Classify(st1, full_path, filename, attributes),
                           fsys, full_path, attributes, cfg.min_duplicate_size)

\* Mutant of Duplicates: a fingerprint needs more than two paths.
DuplicatesOverTwo(file_hashes) ==
  LET many(e) == Len(e.paths) > 2
  IN  SelectSeq(file_hashes, many)

\* duplicates = {h: paths for h, paths in file_hashes.items() if len(paths) > 1}
Duplicates(file_hashes) ==
  LET many(e) == Len(e.paths) > 1
  IN  SelectSeq(file_hashes, many)

\* The locals at the start of the traversal.
EmptyLocals ==
  [oversized_files |-> <<>>, old_files |-> <<>>, junk_files |-> <<>>,
   file_hashes |-> <<>>, scan_errors |-> <<>>,
   stat_calls |-> <<>>, hash_calls |-> <<>>]

----------------------------------------------------------------------------
(* validate_directory_path and os.walk *)

\* validate_directory_path(path) accepts the path: it is not None, it exists
\* and it is a directory.
ValidateDirectoryPath(root) ==
  /\ root.kind /= "none"
  /\ root.kind /= "missing"
  /\ root.kind = "dir"

\* The subdirectories os.walk finds in directory d, in order.
SubDirs(d) ==
  LET sub(j) == /\ Len(DirPaths[j]) > Len(DirPaths[d]) + 1
                /\ StartsWith(DirPaths[j], DirPaths[d] \o <<"/">>)
                /\ \A k \in (Len(DirPaths[d]) + 2)..Len(DirPaths[j]) :
                      DirPaths[j][k] /= "/"
  IN  SelectSeq([j \in 1..Len(DirPaths) |-> j], sub)

----------------------------------------------------------------------------
(* The inputs: trees, roots and configurations *)

\* Files in a tree whose length is drawn up to this bound.
MaxFiles == 3

\* Timestamps: older than six months, two hours ago, ten seconds ago.
LongAgo == Now - (6 * 30 * 24 * 3600) - 1
TwoHoursAgo == Now - 7200
JustNow == Now - 10

\* analyze_files' own defaults (the def line).
FunctionDefaults ==
  [min_duplicate_size |-> 0, months |-> 6,
   oversized_threshold |-> 1024 * 1024 * 1024, download_stale_secs |-> 3600]

\* The defaults of main()'s argument parser.
CliDefaults ==
  [min_duplicate_size |-> 10 * 1024, months |-> 6,
   oversized_threshold |-> 1024 * 1024 * 1024, download_stale_secs |-> 3600]

\* Values type=int accepts and nothing checks: all four negative.
NegativeConfig ==
  [min_duplicate_size |-> -1, months |-> -1,
   oversized_threshold |-> -1, download_stale_secs |-> -1]

GoodRoot == [path |-> DirPaths[1], kind |-> "dir"]

Input(files, dirs_ok, root, touch, cfg) ==
  [files |-> files, dirs_ok |-> dirs_ok, root |-> root, touch |-> touch, cfg |-> cfg]

AllListable == [d \in 1..Len(DirPaths) |-> TRUE]

\* Plain names, one per slot of a tree.
PlainNames == << <<"f","1">>, <<"f","2">>, <<"f","3">>, <<"f","4">>,
                 <<"f","5">>, <<"f","6">> >>

\* Names the classifier's patterns are tried on.
TriedNames ==
  { <<"a",".","t","x","t">>,
    <<"b",".","o","l","d">>,
    <<"c",".","p","a","r","t">>,
    <<"C",".","P","A","R","T">>,
    <<"e",".","c","r","d","o","w","n","l","o","a","d">>,
    <<"C","o","r","e",".","1">>,
    <<"m","y","T","r","a","s","h">>,
    <<".","t","r","a","s","h","-","1","0","0","0">>,
    <<".","c","r","d","o","w","n","l","o","a","d">>,
    <<"p","a","r","t">> }

\* What a file of the error trees can be: readable with one of two contents
\* and two sizes, empty, unreadable metadata, unreadable content.
ErrKinds ==
  { [size |-> 10240, head |-> 1, stat_ok |-> TRUE, read_ok |-> TRUE],
    [size |-> 10240, head |-> 2, stat_ok |-> TRUE, read_ok |-> TRUE],
    [size |-> 500, head |-> 1, stat_ok |-> TRUE, read_ok |-> TRUE],
    [size |-> 0, head |-> 0, stat_ok |-> TRUE, read_ok |-> TRUE],
    [size |-> 10240, head |-> 1, stat_ok |-> FALSE, read_ok |-> TRUE],
    [size |-> 10240, head |-> 1, stat_ok |-> TRUE, read_ok |-> FALSE] }

\* Trees of up to MaxFiles files, some failing, the last one in the root or
\* in the subdirectory, which may be unlistable.
ErrInputs ==
  { Input([i \in 1..n |->
             File(IF i = n /\ in_sub THEN 2 ELSE 1, PlainNames[i], k[i].size,
                  JustNow, JustNow, k[i].head, 0, k[i].stat_ok, k[i].read_ok)],
          [d \in 1..Len(DirPaths) |-> d = 1 \/ sub_ok],
          GoodRoot, FALSE, cfg) :
      n \in 1..MaxFiles, k \in [1..MaxFiles -> ErrKinds],
      in_sub \in BOOLEAN, sub_ok \in BOOLEAN,
      cfg \in {FunctionDefaults, CliDefaults} }

\* One file with a name the patterns are tried on.
JunkInputs ==
  { Input(<<File(1, n, sz, JustNow, mt, IF sz = 0 THEN 0 ELSE 1, 0, sok, TRUE)>>,
          AllListable, GoodRoot, FALSE, cfg) :
      n \in TriedNames, sz \in {0, 500}, mt \in {TwoHoursAgo, JustNow},
      sok \in BOOLEAN, cfg \in {FunctionDefaults, NegativeConfig} }

\* One file of any age, on a file system that updates access times or not.
TimeInputs ==
  { Input(<<File(1, n, 500, at, mt, 1, 0, TRUE, TRUE)>>,
          AllListable, GoodRoot, touch, cfg) :
      n \in { <<"a",".","t","x","t">>, <<"c",".","p","a","r","t">> },
      at \in {LongAgo, JustNow}, mt \in {LongAgo, TwoHoursAgo},
      touch \in BOOLEAN, cfg \in {FunctionDefaults, CliDefaults} }

\* A root that fails validation, or one that cannot be listed.
RootInputs ==
  { Input(<<File(1, PlainNames[1], 500, JustNow, JustNow, 1, 0, TRUE, TRUE),
            File(2, PlainNames[2], 500, JustNow, JustNow, 1, 0, TRUE, TRUE)>>,
          [d \in 1..Len(DirPaths) |-> listable], [path |-> DirPaths[1], kind |-> kind],
          FALSE, cfg) :
      kind \in {"none", "missing", "file", "dir"}, listable \in BOOLEAN,
      cfg \in {FunctionDefaults, CliDefaults, NegativeConfig} }

\* A minimum duplicate size above the sampling limit (the GUI's field is in
\* KiB: 20480).
BigMinimum ==
  [min_duplicate_size |-> 20 * 1024 * 1024, months |-> 6,
   oversized_threshold |-> 1024 * 1024 * 1024, download_stale_secs |-> 3600]

\* The sizes the hashing distinguishes: 1 MiB, 10 MiB, one byte more, 11 MiB.
HashSizes == {SampleBytes, SampleOver, SampleOver + 1, 11 * 1024 * 1024}

\* Two readable files of those sizes, with equal or different first
\* mebibytes and equal or different remainders.
HashInputs ==
  { Input(<<File(1, PlainNames[1], s1, JustNow, JustNow, 1,
                 IF s1 > SampleBytes THEN 1 ELSE 0, TRUE, TRUE),
            File(1, PlainNames[2], s2, JustNow, JustNow, h2,
                 IF s2 > SampleBytes THEN t2 ELSE 0, TRUE, TRUE)>>,
          AllListable, GoodRoot, FALSE, cfg) :
      s1 \in HashSizes, s2 \in HashSizes, h2 \in {1, 2}, t2 \in {1, 2},
      cfg \in {FunctionDefaults, CliDefaults, BigMinimum} }

\* The timestamp whose age is the old-file threshold of six months.
OldEdge == Now - (6 * 30 * 24 * 3600)

\* A large old junk file, and a file at, above or far below the size
\* threshold whose two timestamps are before, at or after the age threshold.
EdgeInputs ==
  { Input(<<File(1, <<"b",".","o","l","d">>,
                 FunctionDefaults.oversized_threshold + 1, LongAgo, LongAgo,
                 1, 1, TRUE, TRUE),
            File(1, n, sz, at, mt, 2, IF sz > SampleBytes THEN 2 ELSE 0,
                 TRUE, TRUE)>>,
          AllListable, GoodRoot, FALSE, FunctionDefaults) :
      n \in { <<"a",".","t","x","t">>, <<"c",".","p","a","r","t">> },
      sz \in {500, FunctionDefaults.oversized_threshold,
              FunctionDefaults.oversized_threshold + 1},
      at \in {LongAgo, OldEdge, JustNow}, mt \in {LongAgo, OldEdge, JustNow} }

\* A minimum duplicate size of 500 bytes beside the function's defaults.
SmallMinimum ==
  [min_duplicate_size |-> 500, months |-> 6,
   oversized_threshold |-> 1024 * 1024 * 1024, download_stale_secs |-> 3600]

\* The largest size the checker's integers hold, one byte under 2 GiB.
MovieSize == (1024 * 1024 * 1024 - 1) + 1024 * 1024 * 1024

\* Five files in one directory: an empty .tmp file, a large film, two small
\* text files with the same content, a download left two hours ago.
ScenarioFiles ==
  << File(1, <<"e","m","p","t","y",".","t","m","p">>, 0, JustNow, JustNow,
          0, 0, TRUE, TRUE),
     File(1, <<"m","o","v","i","e",".","m","p","4">>, MovieSize, JustNow, JustNow,
          4, 4, TRUE, TRUE),
     File(1, <<"a",".","t","x","t">>, 500, JustNow, JustNow, 1, 0, TRUE, TRUE),
     File(1, <<"b",".","t","x","t">>, 500, JustNow, JustNow, 1, 0, TRUE, TRUE),
     File(1, <<"p","a","r","t","i","a","l",".","c","r","d","o","w","n","l","o","a","d">>,
          1000, JustNow, TwoHoursAgo, 3, 0, TRUE, TRUE) >>

\* The orders os.walk can list the five files in.
ScenarioOrders ==
  { p \in [1..Len(ScenarioFiles) -> 1..Len(ScenarioFiles)] :
      \A i, j \in 1..Len(ScenarioFiles) : p[i] = p[j] => i = j }

ScenarioInputs ==
  { Input([i \in 1..Len(ScenarioFiles) |-> ScenarioFiles[p[i]]],
          AllListable, GoodRoot, touch, cfg) :
      p \in ScenarioOrders, touch \in BOOLEAN,
      cfg \in {FunctionDefaults, SmallMinimum} }

Inputs ==
  ErrInputs \cup JunkInputs \cup TimeInputs \cup RootInputs \cup HashInputs
    \cup EdgeInputs \cup ScenarioInputs

----------------------------------------------------------------------------
(* State *)

VARIABLES
  fs,               \* the files of the tree, as the file system holds them now
  dirs_ok,          \* per directory: os.scandir succeeds on it
  root,             \* the root argument of analyze_files
  touch,            \* reads update st_atime on this file system
  cfg,              \* the four threshold arguments of analyze_files
  pc,               \* "idle", "walk", "returned", "done", "ValueError"
  pending,          \* directories os.walk has still to list
  dirpath,          \* the directory whose filenames are being looped over
  filenames,        \* the filenames of dirpath not yet processed
  oversized_files, old_files, junk_files, file_hashes, scan_errors,
  stat_calls,       \* paths get_file_attributes was called on, in order
  hash_calls,       \* paths compute_file_hash was called on, in order
  ret,              \* the tuple analyze_files returned
  scan,             \* 1 during the first scan of the tree, 2 during the second
  first_ret,        \* what the first scan returned
  snap,             \* the tree as it was when the current scan began
  dir_entry,        \* the window's directory entry: the path typed into it
  entries,          \* the window's four parameter entries
  analyze_button,   \* the Analyze button is sensitive
  dry_run,          \* the Dry Run checkbox is sensitive
  analyze_spinner,  \* the spinner is started and shown
  results_text,     \* the text of the results buffer
  message,          \* the text of the last show_message dialog
  idle_queue,       \* callbacks handed to GLib.idle_add and not yet run
  threads,          \* analyze_task threads alive
  started,          \* analyze_task threads started so far
  finished          \* runs of finish_analyze so far

\* The widgets of the window, its main loop and its worker threads.
window == <<dir_entry, entries, analyze_button, dry_run, analyze_spinner,
            results_text, message, idle_queue, threads, started, finished>>

vars == <<fs, dirs_ok, root, touch, cfg, pc, pending, dirpath, filenames,
          oversized_files, old_files, junk_files, file_hashes, scan_errors,
          stat_calls, hash_calls, ret, scan, first_ret, snap, window>>

env == <<dirs_ok, root, touch, cfg, window>>

Locals ==
  [oversized_files |-> oversized_files, old_files |-> old_files,
   junk_files |-> junk_files, file_hashes |-> file_hashes,
   scan_errors |-> scan_errors, stat_calls |-> stat_calls,
   hash_calls |-> hash_calls]

SetLocals(st) ==
  /\ oversized_files' = st.oversized_files
  /\ old_files' = st.old_files
  /\ junk_files' = st.junk_files
  /\ file_hashes' = st.file_hashes
  /\ scan_errors' = st.scan_errors
  /\ stat_calls' = st.stat_calls
  /\ hash_calls' = st.hash_calls

\* The texts the parameter entries are created with: 10 KB, 6 months,
\* 1024 MB, 3600 s.
DefaultEntries ==
  [valid |-> TRUE, min_size |-> 10, months |-> 6, large_size |-> 1024,
   stale_secs |-> 3600]

\* The window as DiskBroomWindow's constructor leaves it, with a path in the
\* directory entry. The command line never shows it.
NewWindow(directory) ==
  /\ dir_entry = directory
  /\ entries = DefaultEntries
  /\ analyze_button = TRUE
  /\ dry_run = TRUE
  /\ analyze_spinner = FALSE
  /\ results_text = <<>>
  /\ message = ""
  /\ idle_queue = <<>>
  /\ threads = 0
  /\ started = 0
  /\ finished = 0

Init ==
  \E in \in Inputs :
    /\ fs = in.files
    /\ dirs_ok = in.dirs_ok
    /\ root = in.root
    /\ touch = in.touch
    /\ cfg = in.cfg
    /\ pc = "idle"
    /\ pending = <<>>
    /\ dirpath = <<>>
    /\ filenames = <<>>
    /\ oversized_files = <<>>
    /\ old_files = <<>>
    /\ junk_files = <<>>
    /\ file_hashes = <<>>
    /\ scan_errors = <<>>
    /\ stat_calls = <<>>
    /\ hash_calls = <<>>
    /\ ret = <<>>
    /\ scan = 1
    /\ first_ret = <<>>
    /\ snap = in.files
    /\ NewWindow(in.root)

----------------------------------------------------------------------------
(* Actions *)

\* analyze_files is called and the root fails validation: it returns at once.
ReturnInvalidRoot ==
  /\ pc = "idle"
  /\ ~ValidateDirectoryPath(root)
  /\ ret' = << <<>>, <<>>, <<>>, <<>> >>
  /\ pc' = "returned"
  /\ SetLocals(EmptyLocals)
  /\ snap' = fs
  /\ UNCHANGED <<fs, env, pending, dirpath, filenames, scan, first_ret>>

\* analyze_files is called with a valid root: the locals are created and
\* os.walk starts at the root.
BeginWalk ==
  /\ pc = "idle"
  /\ ValidateDirectoryPath(root)
  /\ SetLocals(EmptyLocals)
  /\ pending' = <<1>>
  /\ dirpath' = <<>>
  /\ filenames' = <<>>
  /\ snap' = fs
  /\ pc' = "walk"
  /\ UNCHANGED <<fs, env, ret, scan, first_ret>>

\* os.walk lists the next directory and yields it; its subdirectories are
\* walked next.
ListDir ==
  /\ pc = "walk"
  /\ filenames = <<>>
  /\ pending /= <<>>
  /\ dirs_ok[Head(pending)]
  /\ dirpath' = DirPaths[Head(pending)]
  /\ filenames' = FilenamesIn(fs, Head(pending))
  /\ pending' = SubDirs(Head(pending)) \o Tail(pending)
  /\ UNCHANGED <<fs, env, pc, oversized_files, old_files, junk_files,
                 file_hashes, scan_errors, stat_calls, hash_calls, ret, scan,
                 first_ret, snap>>

\* os.walk cannot list the next directory: with onerror left at None it
\* drops the directory, and everything below it, without a word.
SkipDir ==
  /\ pc = "walk"
  /\ filenames = <<>>
  /\ pending /= <<>>
  /\ ~dirs_ok[Head(pending)]
  /\ pending' = Tail(pending)
  /\ UNCHANGED <<fs, env, pc, dirpath, filenames, oversized_files, old_files,
                 junk_files, file_hashes, scan_errors, stat_calls, hash_calls,
                 ret, scan, first_ret, snap>>

\* One iteration of the inner loop, for the next filename of dirpath.
VisitFile ==
  /\ pc = "walk"
  /\ filenames /= <<>>
  /\ LET st == LoopBody(Locals, fs, dirpath, Head(filenames), cfg)
     IN  /\ SetLocals(st)
         /\ fs' = IF Len(st.hash_calls) > Len(hash_calls)
                  THEN AfterRead(fs, JoinPath(dirpath, Head(filenames)), touch)
                  ELSE fs
  /\ filenames' = Tail(filenames)
  /\ UNCHANGED <<env, pc, pending, dirpath, ret, scan, first_ret, snap>>

\* The traversal is over: the duplicates are filtered and the five
\* components returned.
Return ==
  /\ pc = "walk"
  /\ filenames = <<>>
  /\ pending = <<>>
  /\ ret' = <<oversized_files, old_files, junk_files, Duplicates(file_hashes),
              scan_errors>>
  /\ pc' = "returned"
  /\ UNCHANGED <<fs, env, pending, dirpath, filenames, oversized_files,
                 old_files, junk_files, file_hashes, scan_errors, stat_calls,
                 hash_calls, scan, first_ret, snap>>

\* The caller's "oversized_files, old_files, junk_files, duplicates,
\* scan_errors = analyze_files(...)": five targets.
Unpack ==
  /\ pc = "returned"
  /\ pc' = IF Len(ret) = 5 THEN "done" ELSE "ValueError"
  /\ UNCHANGED <<fs, env, pending, dirpath, filenames, oversized_files,
                 old_files, junk_files, file_hashes, scan_errors, stat_calls,
                 hash_calls, ret, scan, first_ret, snap>>

\* The same tree is scanned a second time with the same arguments.
Rescan ==
  /\ pc = "done"
  /\ scan = 1
  /\ scan' = 2
  /\ first_ret' = ret
  /\ pc' = "idle"
  /\ UNCHANGED <<fs, env, pending, dirpath, filenames, oversized_files,
                 old_files, junk_files, file_hashes, scan_errors, stat_calls,
                 hash_calls, ret, snap>>

Next ==
  \/ ReturnInvalidRoot
  \/ BeginWalk
  \/ ListDir
  \/ SkipDir
  \/ VisitFile
  \/ Return
  \/ Unpack
  \/ Rescan

Spec == Init /\ [][Next]_vars

TypeOK ==
  /\ pc \in {"idle", "walk", "returned", "done", "ValueError",
            "no_task", "ended", "raised"}
  /\ analyze_button \in BOOLEAN
  /\ threads \in Nat
  /\ scan \in {1, 2}
  /\ Len(fs) = Len(snap)

----------------------------------------------------------------------------
(* analyze_files as a function of the tree, for comparing two trees *)

\* The (dirpath, filename) pairs in the order the two loops reach them.
RECURSIVE WalkOrder(_, _, _)
WalkOrder(fsys, ok, todo) ==
  IF todo = <<>>
  THEN <<>>
  ELSE LET d == Head(todo)
       IN  IF ok[d]
           THEN LET names == FilenamesIn(fsys, d)
                IN  [i \in 1..Len(names) |-> <<DirPaths[d], names[i]>>]
                      \o WalkOrder(fsys, ok, SubDirs(d) \o Tail(todo))
           ELSE WalkOrder(fsys, ok, Tail(todo))

RECURSIVE RunLoop(_, _, _, _)
RunLoop(st, fsys, items, config) ==
  IF items = <<>>
  THEN st
  ELSE RunLoop(LoopBody(st, fsys, Head(items)[1], Head(items)[2], config),
               fsys, Tail(items), config)

\* analyze_files(root, min_duplicate_size, months, oversized_threshold,
\* download_stale_secs) on the tree fsys.
AnalyzeFiles(fsys, ok, rt, config) ==
  IF ~ValidateDirectoryPath(rt)
  THEN << <<>>, <<>>, <<>>, <<>> >>
  ELSE LET st == RunLoop(EmptyLocals, fsys, WalkOrder(fsys, ok, <<1>>), config)
       IN  <<st.oversized_files, st.old_files, st.junk_files,
             Duplicates(st.file_hashes), st.scan_errors>>

----------------------------------------------------------------------------
(* Vocabulary of the properties *)

Range(s) == {s[i] : i \in 1..Len(s)}

\* The paths named by the entries of a list of tuples whose first (for the
\* error list, second) component is a path.
PathsOf(list) == {list[i][1] : i \in 1..Len(list)}
ErrorPaths(errors) == {errors[i][2] : i \in 1..Len(errors)}

\* The paths in some duplicate set.
DuplicatePaths(dups) == UNION {Range(dups[i].paths) : i \in 1..Len(dups)}

\* The paths in some entry of file_hashes.
HashedPaths(hashes) == UNION {Range(hashes[i].paths) : i \in 1..Len(hashes)}

\* How many entries of a list satisfy a test.
Count(list, Test(_)) == Cardinality({i \in 1..Len(list) : Test(list[i])})

\* The files of the tree the current scan began on.
Files == Range(snap)

\* The scan failed on the file: get_file_attributes returned None for it, or
\* compute_file_hash did.
MetadataFailed(f) == PathOf(f) \in Range(stat_calls) /\ ~f.stat_ok
ContentFailed(f) == PathOf(f) \in Range(hash_calls) /\ ~f.read_ok

\* get_file_attributes returned the file's attributes.
AttributesRead(f) == PathOf(f) \in Range(stat_calls) /\ f.stat_ok

\* A completed scan of a valid root: the five components were returned.
Completed == pc = "done"

----------------------------------------------------------------------------
(* Properties *)

\* C1: when compute_file_hash fails on a file, the completed scan leaves the
\* file out of every duplicate set and its error list has an entry naming
\* the file.
C1_HashFailureRecorded ==
  Completed =>
    \A f \in Files :
      ContentFailed(f) =>
        /\ PathOf(f) \notin DuplicatePaths(ret[4])
        /\ PathOf(f) \in ErrorPaths(ret[5])

\* C2: when the scan completes, every file under the root was either
\* evaluated on every axis it qualifies for (attributes read, and hashed
\* into the duplicate index when its size is at least min_duplicate_size) or
\* is named in the returned error list.
C2_EveryFileAccounted ==
  Completed =>
    \A f \in Files :
      \/ /\ AttributesRead(f)
         /\ f.size >= cfg.min_duplicate_size =>
              PathOf(f) \in HashedPaths(file_hashes)
      \/ PathOf(f) \in ErrorPaths(ret[5])

\* C3: analyze_files always returns five components, all empty and with no
\* file visited when the root fails validation, so the caller's five-way
\* unpacking never raises.
C3_FiveComponents ==
  /\ pc \in {"returned", "done"} => Len(ret) = 5
  /\ (pc = "returned" /\ ~ValidateDirectoryPath(root)) =>
        /\ \A i \in 1..Len(ret) : ret[i] = <<>>
        /\ stat_calls = <<>>
  /\ pc /= "ValueError"

\* The entries of a list of tuples that are about none of the given paths.
Without(list, paths) ==
  LET keep(e) == e[1] \notin paths
  IN  SelectSeq(list, keep)

\* The files the current scan failed on, and the tree without them.
FailedPaths == {PathOf(f) : f \in {g \in Files : MetadataFailed(g) \/ ContentFailed(g)}}
TreeWithoutFailed ==
  LET kept(f) == PathOf(f) \notin FailedPaths
  IN  SelectSeq(snap, kept)

\* C4: a completed scan gives every file it did not fail on exactly the
\* classification and the duplicate grouping that a scan of the tree without
\* the failing files gives it.
C4_FailuresIsolated ==
  Completed =>
    LET alone == AnalyzeFiles(TreeWithoutFailed, dirs_ok, root, cfg)
    IN  /\ Without(ret[1], FailedPaths) = alone[1]
        /\ Without(ret[2], FailedPaths) = alone[2]
        /\ Without(ret[3], FailedPaths) = alone[3]
        /\ ret[4] = alone[4]

\* C4 witness: a scan completed with a duplicate set and a junk file
\* reported although it failed on a file.
C4_Witness ==
  /\ Completed
  /\ FailedPaths /= {}
  /\ ret[4] /= <<>>
  /\ ret[3] /= <<>>

\* C5: once get_file_attributes has returned None for a path, the error list
\* holds exactly one entry naming it, the path is in none of the oversized,
\* old and junk lists nor in a duplicate set, and compute_file_hash was not
\* called on it; the returned report says the same.
C5_MetadataFailure ==
  \A f \in Files :
    MetadataFailed(f) =>
      LET names(e) == e[2] = PathOf(f)
      IN  /\ Count(scan_errors, names) = 1
          /\ PathOf(f) \notin PathsOf(oversized_files)
          /\ PathOf(f) \notin PathsOf(old_files)
          /\ PathOf(f) \notin PathsOf(junk_files)
          /\ PathOf(f) \notin HashedPaths(file_hashes)
          /\ PathOf(f) \notin Range(hash_calls)
          /\ Completed =>
               /\ Count(ret[5], names) = 1
               /\ PathOf(f) \notin PathsOf(ret[1]) \cup PathsOf(ret[2])
                                     \cup PathsOf(ret[3]) \cup DuplicatePaths(ret[4])

\* C5 witness: a completed scan whose tree has a file with unreadable
\* metadata and a junk name, under thresholds that make every readable file
\* oversized and old.
C5_Witness ==
  /\ Completed
  /\ cfg = NegativeConfig
  /\ \E f \in Files : MetadataFailed(f) /\ MatchesJunkPattern(f.name)

\* C6: with a negative threshold among its arguments analyze_files visits
\* no file and produces no classification.
C6_BadConfigRejected ==
  (\/ cfg.min_duplicate_size < 0
   \/ cfg.months < 0
   \/ cfg.oversized_threshold < 0
   \/ cfg.download_stale_secs < 0) =>
    /\ stat_calls = <<>>
    /\ hash_calls = <<>>
    /\ oversized_files = <<>>
    /\ old_files = <<>>
    /\ junk_files = <<>>
    /\ file_hashes = <<>>

\* The paths of a list of tuples, in the list's order.
PathList(list) == [i \in 1..Len(list) |-> list[i][1]]

\* C7: the second of two scans of the same tree with the same arguments
\* reports the same oversized, old and junk files and the same duplicate
\* sets as the first.
C7_SecondScanSame ==
  (Completed /\ scan = 2) =>
    /\ ret[1] = first_ret[1]
    /\ PathList(ret[2]) = PathList(first_ret[2])
    /\ ret[3] = first_ret[3]
    /\ ret[4] = first_ret[4]

\* The stale-download flag get_file_attributes computed for a file.
StaleFlag(f) ==
  GetFileAttributes(snap, PathOf(f), cfg.months, cfg.oversized_threshold,
                    cfg.download_stale_secs).is_stale_download

\* C8: every file whose attributes were read and whose size is 0 has one
\* entry in the junk list, with reason Empty File, whatever its name and its
\* stale-download flag.
C8_EmptyFileFirst ==
  \A f \in Files :
    (AttributesRead(f) /\ f.size = 0) =>
      LET about(e) == e[1] = PathOf(f)
      IN  /\ Count(junk_files, about) = 1
          /\ <<PathOf(f), "Empty File">> \in Range(junk_files)
          /\ Completed =>
               /\ Count(ret[3], about) = 1
               /\ <<PathOf(f), "Empty File">> \in Range(ret[3])

\* C8 witness: a completed scan of an empty file whose name matches a junk
\* pattern and whose stale-download flag is set.
C8_Witness ==
  /\ Completed
  /\ \E f \in Files :
       /\ AttributesRead(f)
       /\ f.size = 0
       /\ MatchesJunkPattern(f.name)
       /\ StaleFlag(f)

\* The junk naming patterns as C9 lists them.
C9_NamedJunk(filename) ==
  LET lowered == Lower(filename)
  IN  \/ Lower(SplitExt(filename)) \in
           { <<".","o","l","d">>, <<".","p","a","r","t">>,
             <<".","c","r","d","o","w","n","l","o","a","d">>,
             <<".","t","r","a","s","h">> }
      \/ StartsWith(lowered, <<"u","n","c","o","n","f","i","r","m","e","d">>)
      \/ StartsWith(lowered, <<"t","r","a","s","h">>)
      \/ StartsWith(lowered, <<"c","o","r","e">>)
      \/ EndsWith(lowered, <<".","c","r","d","o","w","n","l","o","a","d">>)
      \/ EndsWith(lowered, <<".","p","a","r","t">>)
      \/ EndsWith(lowered, <<"t","r","a","s","h">>)
      \/ lowered = <<".","t","r","a","s","h">>
      \/ lowered = <<".","t","r","a","s","h","-","1","0","0","0">>

\* C9: a non-empty file whose attributes were read and whose name matches a
\* junk pattern has one entry in the junk list, with reason Stale Incomplete
\* Download when its stale-download flag is set and Temporary File
\* otherwise; one that matches no pattern and has no flag has no entry.
C9_PatternReasons ==
  \A f \in Files :
    (AttributesRead(f) /\ f.size > 0) =>
      LET about(e) == e[1] = PathOf(f)
          reason == IF StaleFlag(f) THEN "Stale Incomplete Download"
                    ELSE "Temporary File"
      IN  /\ C9_NamedJunk(f.name) =>
               /\ Count(junk_files, about) = 1
               /\ <<PathOf(f), reason>> \in Range(junk_files)
               /\ Completed => <<PathOf(f), reason>> \in Range(ret[3])
          /\ (~C9_NamedJunk(f.name) /\ ~StaleFlag(f)) =>
               /\ Count(junk_files, about) = 0
               /\ Completed => Count(ret[3], about) = 0

\* C9 witness: a completed scan reported Temporary File for a non-empty file
\* matched only through lower-casing.
C9_Witness ==
  /\ Completed
  /\ \E f \in Files :
       /\ AttributesRead(f)
       /\ f.size > 0
       /\ C9_NamedJunk(f.name)
       /\ ~MatchesJunkPatternCased(f.name)
       /\ <<PathOf(f), "Temporary File">> \in Range(ret[3])

\* C10: the stale-download flag of a file is set exactly when its lower-cased
\* extension is .crdownload or .part and its last-modified age exceeds
\* download_stale_secs; so a non-empty such file is reported with reason
\* Stale Incomplete Download.
C10_StaleFlagByExtension ==
  \A f \in Files :
    AttributesRead(f) =>
      LET ext == Lower(SplitExt(f.name))
          due == /\ ext \in { <<".","c","r","d","o","w","n","l","o","a","d">>,
                              <<".","p","a","r","t">> }
                 /\ (Now - f.mtime) > cfg.download_stale_secs
      IN  /\ StaleFlag(f) <=> due
          /\ (Completed /\ f.size > 0 /\ due) =>
               <<PathOf(f), "Stale Incomplete Download">> \in Range(ret[3])

\* The fingerprint the scan filed a path under.
FingerprintOf(path) ==
  LET i == CHOOSE j \in 1..Len(file_hashes) : path \in Range(file_hashes[j].paths)
  IN  file_hashes[i].hash

\* Both files were hashed, got one fingerprint, and the completed scan
\* reports them in one duplicate set.
GroupedTogether(f, g) ==
  /\ PathOf(f) \in HashedPaths(file_hashes)
  /\ PathOf(g) \in HashedPaths(file_hashes)
  /\ FingerprintOf(PathOf(f)) = FingerprintOf(PathOf(g))
  /\ Completed =>
       \E i \in 1..Len(ret[4]) : {PathOf(f), PathOf(g)} \subseteq Range(ret[4][i].paths)

\* Two different files of the tree that the scan read the attributes of and
\* whose content can be read.
ReadablePair(f, g) ==
  /\ f /= g
  /\ AttributesRead(f) /\ f.read_ok
  /\ AttributesRead(g) /\ g.read_ok

SameContent(f, g) == f.size = g.size /\ f.head = g.head /\ f.tail = g.tail

\* Both files are over 10 MiB and their first 1 MiB is the same.
SamePrefixLarge(f, g) ==
  /\ f.size > 10 * 1024 * 1024
  /\ g.size > 10 * 1024 * 1024
  /\ f.head = g.head

\* C11 as stated: two readable files of size >= min_duplicate_size and
\* <= 10 MiB with identical content are in one duplicate set, and so are two
\* readable files of size > 10 MiB with the same first 1 MiB, whatever
\* min_duplicate_size is.
C11_AsStated ==
  \A f, g \in Files :
    ReadablePair(f, g) =>
      /\ ( /\ f.size >= cfg.min_duplicate_size
           /\ f.size <= 10 * 1024 * 1024
           /\ SameContent(f, g) ) => GroupedTogether(f, g)
      /\ SamePrefixLarge(f, g) => GroupedTogether(f, g)

\* C11 (amended): two readable files of size >= min_duplicate_size and
\* <= 10 MiB with identical content have one fingerprint and are in one
\* duplicate set; so are two readable files of size > 10 MiB and
\* >= min_duplicate_size whose first 1 MiB is identical, even when their
\* remaining bytes differ.
C11_SameContentGrouped ==
  \A f, g \in Files :
    ReadablePair(f, g) =>
      /\ ( /\ f.size >= cfg.min_duplicate_size
           /\ f.size <= 10 * 1024 * 1024
           /\ SameContent(f, g) ) => GroupedTogether(f, g)
      /\ ( /\ SamePrefixLarge(f, g)
           /\ f.size >= cfg.min_duplicate_size
           /\ g.size >= cfg.min_duplicate_size ) => GroupedTogether(f, g)

\* C11 witness: a completed scan grouped two files over 10 MiB of different
\* sizes and different remainders.
C11_Witness ==
  /\ Completed
  /\ \E f, g \in Files :
       /\ ReadablePair(f, g)
       /\ SamePrefixLarge(f, g)
       /\ f.size /= g.size
       /\ f.tail /= g.tail
       /\ \E i \in 1..Len(ret[4]) :
            {PathOf(f), PathOf(g)} \subseteq Range(ret[4][i].paths)

\* C12: a file smaller than min_duplicate_size is never hashed and is in no
\* duplicate set of the report, even next to a file with the same content; a
\* file whose size equals min_duplicate_size is hashed.
C12_BelowMinimumNeverGrouped ==
  \A f \in Files :
    /\ f.size < cfg.min_duplicate_size =>
         /\ PathOf(f) \notin Range(hash_calls)
         /\ PathOf(f) \notin HashedPaths(file_hashes)
         /\ Completed => PathOf(f) \notin DuplicatePaths(ret[4])
    /\ (AttributesRead(f) /\ f.size = cfg.min_duplicate_size) =>
         /\ PathOf(f) \in Range(hash_calls)
         /\ f.read_ok => PathOf(f) \in HashedPaths(file_hashes)

\* C12 witness: a completed scan of a tree with two readable files of the
\* same content below the minimum and a hashed file of exactly the minimum.
C12_Witness ==
  /\ Completed
  /\ \E f, g \in Files :
       /\ ReadablePair(f, g)
       /\ SameContent(f, g)
       /\ f.size < cfg.min_duplicate_size
  /\ \E h \in Files :
       /\ h.size = cfg.min_duplicate_size
       /\ PathOf(h) \in HashedPaths(file_hashes)

\* The position of a path in the order of the traversal.
Discovered(path) == CHOOSE i \in 1..Len(stat_calls) : stat_calls[i] = path

\* C13: in the returned duplicates map every fingerprint has at least two
\* paths and appears once, every fingerprint that collected two or more
\* paths during the traversal is there with those paths, and the paths of a
\* set are in the order the traversal reached them.
C13_DuplicateMap ==
  Completed =>
    /\ \A i \in 1..Len(ret[4]) : Len(ret[4][i].paths) >= 2
    /\ \A i, j \in 1..Len(ret[4]) : ret[4][i].hash = ret[4][j].hash => i = j
    /\ \A j \in 1..Len(file_hashes) :
         Len(file_hashes[j].paths) >= 2 => file_hashes[j] \in Range(ret[4])
    /\ \A i \in 1..Len(ret[4]) :
         \A a, b \in 1..Len(ret[4][i].paths) :
           a < b => Discovered(ret[4][i].paths[a]) < Discovered(ret[4][i].paths[b])

\* C13 witness: a completed scan returned a duplicate set and left out a
\* fingerprint that collected one path.
C13_Witness ==
  /\ Completed
  /\ \E j \in 1..Len(file_hashes) : Len(file_hashes[j].paths) = 1
  /\ \E i \in 1..Len(ret[4]) : Len(ret[4][i].paths) >= 2

\* C14: a file whose attributes were read and whose size is greater than
\* oversized_threshold has exactly one entry in the oversized list, and the
\* entry carries its size in bytes; a file whose size is at most the
\* threshold has none; this does not change with the file being in the old
\* or the junk list.
C14_OversizedBySize ==
  \A f \in Files :
    AttributesRead(f) =>
      LET about(e) == e[1] = PathOf(f)
      IN  /\ f.size > cfg.oversized_threshold =>
               /\ Count(oversized_files, about) = 1
               /\ <<PathOf(f), f.size>> \in Range(oversized_files)
               /\ Completed =>
                    /\ Count(ret[1], about) = 1
                    /\ <<PathOf(f), f.size>> \in Range(ret[1])
          /\ f.size <= cfg.oversized_threshold =>
               /\ Count(oversized_files, about) = 0
               /\ Completed => Count(ret[1], about) = 0

\* C14 witness: a completed scan of a file one byte over the threshold, in
\* the oversized, old and junk lists, and of a file of exactly the threshold.
C14_Witness ==
  /\ Completed
  /\ \E f, g \in Files :
       /\ AttributesRead(f) /\ AttributesRead(g)
       /\ f.size = cfg.oversized_threshold + 1
       /\ PathOf(f) \in PathsOf(ret[1]) \cap PathsOf(ret[2]) \cap PathsOf(ret[3])
       /\ g.size = cfg.oversized_threshold

\* The age both timestamps of an old file exceed: months * 30 * 24 hours, in
\* seconds.
OldAge == cfg.months * 30 * 24 * 3600

\* C15: in the first scan of a tree, a file whose attributes were read is in
\* the old list exactly when its last-access age and its last-modified age
\* both exceed months * 30 * 24 hours, with one entry that carries the two
\* timestamps; one old timestamp is not enough.
C15_OldNeedsBoth ==
  \A f \in Files :
    (scan = 1 /\ AttributesRead(f)) =>
      LET about(e) == e[1] = PathOf(f)
          both == Now - f.atime > OldAge /\ Now - f.mtime > OldAge
      IN  /\ both =>
               /\ Count(old_files, about) = 1
               /\ <<PathOf(f), f.atime, f.mtime>> \in Range(old_files)
               /\ Completed => <<PathOf(f), f.atime, f.mtime>> \in Range(ret[2])
          /\ ~both =>
               /\ Count(old_files, about) = 0
               /\ Completed => Count(ret[2], about) = 0

\* C15 witness: a completed first scan put one file in the old list and left
\* out a file with one timestamp older than the threshold and the other
\* exactly at it.
C15_Witness ==
  /\ Completed
  /\ scan = 1
  /\ \E f, g \in Files :
       /\ AttributesRead(f) /\ AttributesRead(g)
       /\ PathOf(f) \in PathsOf(ret[2])
       /\ Now - g.atime > OldAge
       /\ Now - g.mtime = OldAge
       /\ PathOf(g) \notin PathsOf(ret[2])

\* C16: a path has at most one entry in the junk list, hence one reason; a
\* file whose attributes were read, in the junk list or not, is in the
\* oversized list exactly when its size exceeds the threshold and, in the
\* first scan of a tree, in the old list exactly when both its timestamps
\* are older than the threshold.
C16_IndependentLists ==
  \A f \in Files :
    LET about(e) == e[1] = PathOf(f)
        both == Now - f.atime > OldAge /\ Now - f.mtime > OldAge
    IN  /\ Count(junk_files, about) <= 1
        /\ Completed => Count(ret[3], about) <= 1
        /\ AttributesRead(f) =>
             /\ PathOf(f) \in PathsOf(oversized_files)
                  <=> f.size > cfg.oversized_threshold
             /\ scan = 1 => (PathOf(f) \in PathsOf(old_files) <=> both)

\* C16 witness: a completed scan returned one path in the oversized, the old
\* and the junk list, and another file in none of them.
C16_Witness ==
  /\ Completed
  /\ \E f, g \in Files :
       /\ PathOf(f) \in PathsOf(ret[1]) \cap PathsOf(ret[2]) \cap PathsOf(ret[3])
       /\ AttributesRead(g)
       /\ PathOf(g) \notin PathsOf(ret[1]) \cup PathsOf(ret[2]) \cup PathsOf(ret[3])

\* The scan runs on the five-file tree, in some listing order.
OnScenario ==
  /\ Len(snap) = Len(ScenarioFiles)
  /\ Range(snap) = Range(ScenarioFiles)
  /\ dirs_ok = AllListable
  /\ root = GoodRoot
  /\ cfg \in {FunctionDefaults, SmallMinimum}

\* C17: a completed scan of the five-file tree with oversized threshold
\* 1 GiB, stale-download threshold 3600 s and minimum duplicate size 0 or 500
\* returns, in some order, junk = (empty.tmp, Empty File) and
\* (partial.crdownload, Stale Incomplete Download), oversized = (movie.mp4,
\* its size), one duplicate set of a.txt and b.txt, no old file, no error.
C17_Scenario ==
  (Completed /\ OnScenario) =>
    LET empty == PathOf(ScenarioFiles[1])
        movie == PathOf(ScenarioFiles[2])
        a == PathOf(ScenarioFiles[3])
        b == PathOf(ScenarioFiles[4])
        partial == PathOf(ScenarioFiles[5])
    IN  /\ Len(ret[3]) = 2
        /\ Range(ret[3]) = { <<empty, "Empty File">>,
                             <<partial, "Stale Incomplete Download">> }
        /\ ret[1] = << <<movie, MovieSize>> >>
        /\ Len(ret[4]) = 1
        /\ Len(ret[4][1].paths) = 2
        /\ Range(ret[4][1].paths) = {a, b}
        /\ ret[2] = <<>>
        /\ ret[5] = <<>>

\* C17 witness: a completed scan of the five-file tree with minimum duplicate
\* size 500 in which the download was listed first and b.txt before a.txt.
C17_Witness ==
  /\ Completed
  /\ OnScenario
  /\ cfg.min_duplicate_size = 500
  /\ snap[1] = ScenarioFiles[5]
  /\ ret[4][1].paths = <<PathOf(ScenarioFiles[4]), PathOf(ScenarioFiles[3])>>

\* C18: a readable file over 10 MiB and a readable file of exactly 1 MiB
\* whose content is the first 1 MiB of the other, both of size >=
\* min_duplicate_size, have one fingerprint and are in one duplicate set; the
\* fingerprint of a readable file of exactly 10 MiB is the digest of its
\* whole content, not of its first 1 MiB.
C18_OneNamespace ==
  /\ \A f, g \in Files :
       ( /\ ReadablePair(f, g)
         /\ f.size > 10 * 1024 * 1024
         /\ g.size = 1024 * 1024
         /\ f.head = g.head
         /\ f.size >= cfg.min_duplicate_size
         /\ g.size >= cfg.min_duplicate_size ) => GroupedTogether(f, g)
  /\ \A f \in Files :
       ( /\ AttributesRead(f) /\ f.read_ok
         /\ f.size = 10 * 1024 * 1024
         /\ f.size >= cfg.min_duplicate_size ) =>
           /\ PathOf(f) \in HashedPaths(file_hashes)
           /\ FingerprintOf(PathOf(f)) = Sha256(<<f.size, f.head, f.tail>>)
           /\ FingerprintOf(PathOf(f)) /= Sha256(<<1024 * 1024, f.head, 0>>)

\* C18 witness: a completed scan reported a file over 10 MiB and a file of
\* 1 MiB in one duplicate set.
C18_Witness ==
  /\ Completed
  /\ \E f, g \in Files :
       /\ ReadablePair(f, g)
       /\ f.size > 10 * 1024 * 1024
       /\ g.size = 1024 * 1024
       /\ ret[4] = << [hash |-> FingerprintOf(PathOf(f)),
                       paths |-> <<PathOf(g), PathOf(f)>>] >>

----------------------------------------------------------------------------
(* The GTK front end: on_analyze_clicked, analyze_task, the idle callbacks *)

\* Clicks on Analyze that start a worker thread, at most.
MaxClicks == 2

\* What the user types into the parameter entries: the defaults, a minimum
\* of 0 KB, a text int() rejects.
GuiEntries ==
  { DefaultEntries,
    [DefaultEntries EXCEPT !.min_size = 0],
    [DefaultEntries EXCEPT !.valid = FALSE] }

\* What the user types into the directory entry: the tree's root, or a path
\* that does not exist.
GuiDirectories == { GoodRoot, [path |-> <<"x">>, kind |-> "missing"] }

\* The trees the window is used on: a file in the root and a file in the
\* subdirectory, which can be listed or not.
GuiInputs ==
  { Input(<<File(1, PlainNames[1], 500, JustNow, JustNow, 1, 0, TRUE, TRUE),
            File(2, PlainNames[2], 500, JustNow, JustNow, 1, 0, TRUE, r_ok)>>,
          [d \in 1..Len(DirPaths) |-> d = 1 \/ sub_ok], GoodRoot, FALSE,
          CliDefaults) :
      sub_ok \in BOOLEAN, r_ok \in BOOLEAN }

\* The window is shown and the main loop runs; no worker thread exists.
InitGui ==
  \E in \in GuiInputs :
    /\ fs = in.files
    /\ dirs_ok = in.dirs_ok
    /\ root = in.root
    /\ touch = in.touch
    /\ cfg = in.cfg
    /\ pc = "no_task"
    /\ pending = <<>>
    /\ dirpath = <<>>
    /\ filenames = <<>>
    /\ oversized_files = <<>>
    /\ old_files = <<>>
    /\ junk_files = <<>>
    /\ file_hashes = <<>>
    /\ scan_errors = <<>>
    /\ stat_calls = <<>>
    /\ hash_calls = <<>>
    /\ ret = <<>>
    /\ scan = 1
    /\ first_ret = <<>>
    /\ snap = in.files
    /\ NewWindow(in.root)

\* What no handler of the window and no callback changes.
scanvars == <<fs, dirs_ok, touch, pending, dirpath, filenames, oversized_files,
              old_files, junk_files, file_hashes, scan_errors, stat_calls,
              hash_calls, ret, scan, first_ret, snap>>

\* The user edits the directory entry.
EditDirectory ==
  /\ \E d \in GuiDirectories : d /= dir_entry /\ dir_entry' = d
  /\ UNCHANGED <<scanvars, root, cfg, pc, entries, analyze_button, dry_run,
                 analyze_spinner, results_text, message, idle_queue, threads,
                 started, finished>>

\* The user edits the parameter entries.
EditEntries ==
  /\ \E e \in GuiEntries : e /= entries /\ entries' = e
  /\ UNCHANGED <<scanvars, root, cfg, pc, dir_entry, analyze_button, dry_run,
                 analyze_spinner, results_text, message, idle_queue, threads,
                 started, finished>>

\* on_analyze_clicked, first return: the directory fails validation. (The
\* Analyze button emits "clicked" only while it is sensitive.)
ClickInvalidDirectory ==
  /\ analyze_button
  /\ ~ValidateDirectoryPath(dir_entry)
  /\ message' = "Invalid directory path"
  /\ UNCHANGED <<scanvars, root, cfg, pc, dir_entry, entries, analyze_button,
                 dry_run, analyze_spinner, results_text, idle_queue, threads,
                 started, finished>>

\* on_analyze_clicked, second return: int() raises ValueError on an entry.
ClickInvalidParameters ==
  /\ analyze_button
  /\ ValidateDirectoryPath(dir_entry)
  /\ ~entries.valid
  /\ message' = "Invalid input for parameters"
  /\ UNCHANGED <<scanvars, root, cfg, pc, dir_entry, entries, analyze_button,
                 dry_run, analyze_spinner, results_text, idle_queue, threads,
                 started, finished>>

\* The arguments analyze_task passes to analyze_files, from the entries.
ParseEntries(e) ==
  [min_duplicate_size |-> e.min_size * 1024, months |-> e.months,
   oversized_threshold |-> e.large_size * 1024 * 1024,
   download_stale_secs |-> e.stale_secs]

\* Mutant of ClickStart: the handler leaves the button and the checkbox
\* sensitive.
ClickStartStaysSensitive ==
  /\ analyze_button
  /\ started < MaxClicks
  /\ ValidateDirectoryPath(dir_entry)
  /\ entries.valid
  /\ root' = dir_entry
  /\ cfg' = ParseEntries(entries)
  /\ analyze_spinner' = TRUE
  /\ threads' = threads + 1
  /\ started' = started + 1
  /\ pc' = "idle"
  /\ UNCHANGED <<scanvars, dir_entry, entries, analyze_button, dry_run,
                 results_text, message, idle_queue, finished>>

\* on_analyze_clicked, past both checks: the checkbox and the button are
\* made insensitive, the spinner is started, and a thread is started on
\* analyze_task with the directory and the parsed parameters.
ClickStart ==
  /\ analyze_button
  /\ started < MaxClicks
  /\ ValidateDirectoryPath(dir_entry)
  /\ entries.valid
  /\ root' = dir_entry
  /\ cfg' = ParseEntries(entries)
  /\ dry_run' = FALSE
  /\ analyze_button' = FALSE
  /\ analyze_spinner' = TRUE
  /\ threads' = threads + 1
  /\ started' = started + 1
  /\ pc' = "idle"
  /\ UNCHANGED <<scanvars, dir_entry, entries, results_text, message,
                 idle_queue, finished>>

\* The directory is removed after the handler validated it and before
\* analyze_files, on the worker thread, validates it again.
RemoveRoot ==
  /\ pc = "idle"
  /\ threads > 0
  /\ root.kind = "dir"
  /\ root' = [root EXCEPT !.kind = "missing"]
  /\ dir_entry' = IF dir_entry.path = root.path
                  THEN [dir_entry EXCEPT !.kind = "missing"]
                  ELSE dir_entry
  /\ UNCHANGED <<scanvars, cfg, pc, entries, analyze_button, dry_run,
                 analyze_spinner, results_text, message, idle_queue, threads,
                 started, finished>>

\* The first line analyze_task writes to its output.
ReportText == <<"Analysis Results for ", root.path>>

\* analyze_task after analyze_files returned five components: the report is
\* written, update_analyze_results is queued with it, and the finally
\* clause queues finish_analyze; the thread ends.
TaskDone ==
  /\ pc = "done"
  /\ threads > 0
  /\ idle_queue' = idle_queue \o
       << [callback |-> "update_analyze_results", text |-> ReportText],
          [callback |-> "finish_analyze", text |-> <<>>] >>
  /\ threads' = threads - 1
  /\ pc' = "ended"
  /\ UNCHANGED <<scanvars, root, cfg, dir_entry, entries, analyze_button,
                 dry_run, analyze_spinner, results_text, message, started,
                 finished>>

\* Mutant of TaskRaised: analyze_task without its finally clause.
TaskRaisedNoFinally ==
  /\ pc = "ValueError"
  /\ threads > 0
  /\ threads' = threads - 1
  /\ pc' = "raised"
  /\ UNCHANGED <<scanvars, root, cfg, dir_entry, entries, analyze_button,
                 dry_run, analyze_spinner, results_text, message, idle_queue,
                 started, finished>>

\* analyze_task when the statement in its try block raises: nothing is
\* written, the finally clause queues finish_analyze, and the thread dies of
\* the exception.
TaskRaised ==
  /\ pc = "ValueError"
  /\ threads > 0
  /\ idle_queue' = Append(idle_queue, [callback |-> "finish_analyze", text |-> <<>>])
  /\ threads' = threads - 1
  /\ pc' = "raised"
  /\ UNCHANGED <<scanvars, root, cfg, dir_entry, entries, analyze_button,
                 dry_run, analyze_spinner, results_text, message, started,
                 finished>>

\* The main loop runs update_analyze_results(text); it returns False and is
\* not run again.
UpdateAnalyzeResults ==
  /\ idle_queue /= <<>>
  /\ Head(idle_queue).callback = "update_analyze_results"
  /\ results_text' = Head(idle_queue).text
  /\ idle_queue' = Tail(idle_queue)
  /\ UNCHANGED <<scanvars, root, cfg, pc, dir_entry, entries, analyze_button,
                 dry_run, analyze_spinner, message, threads, started, finished>>

\* The main loop runs finish_analyze(); it returns False and is not run
\* again.
FinishAnalyze ==
  /\ idle_queue /= <<>>
  /\ Head(idle_queue).callback = "finish_analyze"
  /\ analyze_spinner' = FALSE
  /\ analyze_button' = TRUE
  /\ dry_run' = TRUE
  /\ finished' = finished + 1
  /\ idle_queue' = Tail(idle_queue)
  /\ UNCHANGED <<scanvars, root, cfg, pc, dir_entry, entries, results_text,
                 message, threads, started>>

\* The steps of the worker thread.
AnalyzeTask ==
  \/ ReturnInvalidRoot
  \/ BeginWalk
  \/ ListDir
  \/ SkipDir
  \/ VisitFile
  \/ Return
  \/ Unpack
  \/ TaskDone
  \/ TaskRaised

\* The idle callbacks the main loop dispatches.
RunIdle ==
  \/ UpdateAnalyzeResults
  \/ FinishAnalyze

NextGui ==
  \/ EditDirectory
  \/ EditEntries
  \/ ClickInvalidDirectory
  \/ ClickInvalidParameters
  \/ ClickStart
  \/ RemoveRoot
  \/ ReturnInvalidRoot
  \/ BeginWalk
  \/ ListDir
  \/ SkipDir
  \/ VisitFile
  \/ Return
  \/ Unpack
  \/ TaskDone
  \/ TaskRaised
  \/ UpdateAnalyzeResults
  \/ FinishAnalyze

\* The window in use. A started thread keeps running until it ends, and the
\* main loop keeps dispatching idle callbacks while the window is open.
SpecGui ==
  /\ InitGui
  /\ [][NextGui]_vars
  /\ WF_vars(AnalyzeTask)
  /\ WF_vars(RunIdle)

\* A click started a worker thread and finish_analyze has not run since.
InFlight == started > finished

\* A click the handler rejects.
RejectedClick == ClickInvalidDirectory \/ ClickInvalidParameters

\* C19: every click that starts a worker thread is eventually followed by a
\* run of finish_analyze that leaves the spinner stopped and the button and
\* the checkbox sensitive, whether the task ended or raised; from the click
\* to that run the button is insensitive and at most one task exists; a
\* rejected click starts no thread and leaves the button sensitive.
C19_ClickThenFinish ==
  /\ \A n \in 1..MaxClicks :
       (started = n) ~>
         (finished = n /\ analyze_button /\ dry_run /\ ~analyze_spinner)
  /\ [](/\ threads <= 1
        /\ started - finished \in {0, 1}
        /\ threads = 1 => InFlight
        /\ InFlight => (~analyze_button /\ ~dry_run /\ analyze_spinner))
  /\ [][RejectedClick =>
          /\ threads' = threads
          /\ started' = started
          /\ analyze_button /\ analyze_button']_vars

\* C19 witness: two clicks each started a task, one task wrote its report
\* and the last one raised, finish_analyze ran after each, and the button is
\* sensitive again.
C19_Witness ==
  /\ started = 2
  /\ finished = 2
  /\ pc = "raised"
  /\ results_text /= <<>>
  /\ threads = 0
  /\ analyze_button /\ dry_run /\ ~analyze_spinner

====
